---- MODULE Spec2Model ----
(***************************************************************************)
(* AquaGuard telemetry gateway (src/src/index.js) and the telemetry router *)
(* of the older API server (src/NODE.JS/src/routes/devices.js, second      *)
(* half).  One request is a record in a slot; it moves through the         *)
(* middleware chain one step at a time, and a handler that awaits the      *)
(* store is suspended in pc = "await" until the store answers.             *)
(*                                                                         *)
(* Time is counted in whole seconds (now); Date.now() is now * 1000.       *)
(***************************************************************************)
EXTENDS Integers, Sequences, FiniteSets, TLC

(***************************************************************************)
(* Bounds of the exploration.                                              *)
(***************************************************************************)
MaxTime == 3
MaxIngestTime == 2
MaxReqs == 2
MaxAuthReqs == 2
MaxRateReqs == 4
MaxConcReqs == 4
MaxStageReqs == 4
MaxLen == 2

(***************************************************************************)
(* Configuration read from the environment (index.js:37-40, 136, 144-145). *)
(* Every value is a legal setting of the corresponding variable.           *)
(***************************************************************************)
rateWindowMs == 3000
rateMaxReq == 3
ingestWindowMs == 2000
ingestMaxReq == 2
JWT_EXPIRES_IN == 2
JWT_SECRET == "gateway-key"
DEVICE_SECRET_PREFIX == "p-"

(***************************************************************************)
(* Limits written in the schemas (index.js:90-92, 103).                    *)
(***************************************************************************)
DeviceIdMaxLen == 100
ValueMin == -1000
ValueMax == 10000
BulkMin == 1
BulkMax == 100

Undefined == "undefined"
Slots == {1, 2}
IPs == {"10.0.0.1", "10.0.0.2"}
Devices == {"d1", "d2"}

allowedSensorTypes ==
  {"flow", "pressure", "temperature", "humidity", "ph", "turbidity",
   "dissolvedOxygen", "conductivity"}

getUnit(type) ==
  CASE type = "flow" -> "L/min"
    [] type = "pressure" -> "bar"
    [] type = "temperature" -> "C"
    [] type = "humidity" -> "%"
    [] type = "ph" -> "pH"
    [] type = "turbidity" -> "NTU"
    [] type = "dissolvedOxygen" -> "mg/L"
    [] type = "conductivity" -> "uS/cm"
    [] OTHER -> "unit"

(***************************************************************************)
(* Values of the JSON bodies.  A number is [kind "num", n]; a string that  *)
(* is no number is [kind "text"].  A timestamp is absent, a number of      *)
(* epoch seconds, a string or a number too large for a Date.  Of the ISO   *)
(* 8601 strings, TsIso(ms) is the text Date.prototype.toISOString gives    *)
(* for the instant ms, and TsIsoOffset(ms) a text for the same instant in  *)
(* another ISO form (a zone offset, no milliseconds); TsBad is a string    *)
(* that is no ISO date.  TsHuge is a safe integer of more than 8.64e12:    *)
(* times 1000 it is beyond the range of Date.                              *)
(***************************************************************************)
Num(n) == [kind |-> "num", n |-> n]
Text == [kind |-> "text", n |-> 0]
TsAbsent == [kind |-> "absent", v |-> 0]
TsNum(sec) == [kind |-> "num", v |-> sec]
TsIso(ms) == [kind |-> "iso", v |-> ms]
TsIsoOffset(ms) == [kind |-> "isoOffset", v |-> ms]
TsHuge == [kind |-> "numHuge", v |-> 0]
TsBad == [kind |-> "bad", v |-> 0]

DateNow(t) == t * 1000
toISOString(ms) == TsIso(ms)

(***************************************************************************)
(* jsonwebtoken as index.js uses it: sign() with an explicit iat and       *)
(* expiresIn puts exp = iat + expiresIn in the payload and signs with the  *)
(* key; verify() fails on a wrong signature or when the clock (seconds)    *)
(* has reached exp.                                                        *)
(***************************************************************************)
NoToken == [deviceId |-> "", type |-> "none", iat |-> 0, exp |-> 0, key |-> ""]

jwtSign(deviceId, iat, key, expiresIn) ==
  [deviceId |-> deviceId, type |-> "device", iat |-> iat,
   exp |-> iat + expiresIn, key |-> key]

jwtVerifyErr(token, key, t) ==
  IF token.key # key THEN "JsonWebTokenError"
  ELSE IF (DateNow(t) \div 1000) >= token.exp THEN "TokenExpiredError"
  ELSE "none"

Forged == jwtSign("d1", 0, "attacker-key", 100)

(***************************************************************************)
(* Responses.                                                              *)
(***************************************************************************)
NoResp ==
  [status |-> 0, error |-> "", code |-> "", token |-> NoToken,
   processed |-> 0, failed |-> 0, results |-> <<>>, errors |-> <<>>,
   hasErrors |-> FALSE]

Resp(status, error, code) ==
  [NoResp EXCEPT !.status = status, !.error = error, !.code = code]

NoBody == [deviceId |-> Undefined, deviceSecret |-> Undefined,
           hasReadings |-> FALSE, readings |-> <<>>, location |-> Undefined]

IdleReq ==
  [pc |-> "idle", route |-> "", ip |-> "", auth |-> NoToken, body |-> NoBody,
   deviceId |-> Undefined, tokenExp |-> 0, idx |-> 0, results |-> <<>>,
   errors |-> <<>>, pending |-> <<>>, resp |-> NoResp,
   verifiedAt |-> -1, looped |-> FALSE, calls |-> <<>>, stages |-> <<>>,
   outs |-> <<>>]

Stage(r, name) == [r EXCEPT !.stages = Append(@, name)]

VARIABLES now, nreq, hits, issued, reqs, store, log

vars == <<now, nreq, hits, issued, reqs, store, log>>

(***************************************************************************)
(* log is history: every admission check of a limiter for a key, with its  *)
(* time and its outcome; so are the stages field of a request, the stages  *)
(* of the pipeline the request has entered, in order, and its outs field,  *)
(* what the store answered to each of its writes.                          *)
(*                                                                         *)
(* express-rate-limit with its in-memory store, one instance per           *)
(* rateLimit() call: per key a hit count and the time the window ends.  A  *)
(* hit at or after the end opens a new window; the request passes while    *)
(* the count, this hit included, does not exceed max.                      *)
(***************************************************************************)
NoClient == [totalHits |-> 0, resetTime |-> 0]

incrementLost(client, ms, windowMs) ==
  LET c == IF client.resetTime <= ms
           THEN [totalHits |-> 0, resetTime |-> ms + windowMs]
           ELSE client
  IN [c EXCEPT !.totalHits = IF @ = 1 THEN 1 ELSE @ + 1]

increment(client, ms, windowMs) ==
  LET c == IF client.resetTime <= ms
           THEN [totalHits |-> 0, resetTime |-> ms + windowMs]
           ELSE client
  IN [c EXCEPT !.totalHits = @ + 1]

overLimit(client, max) == client.totalHits > max

RateLimited(message) == Resp(429, message, "")

Init ==
  /\ now = 0
  /\ nreq = 0
  /\ hits = [l \in {"limiter", "ingestLimiter"} |-> [ip \in IPs |-> NoClient]]
  /\ issued = {}
  /\ reqs = [s \in Slots |-> IdleReq]
  /\ store = [s \in Slots |-> <<>>]
  /\ log = [l \in {"limiter", "ingestLimiter"} |-> [ip \in IPs |-> <<>>]]

Tick(cap) ==
  /\ now < cap
  /\ now' = now + 1
  /\ UNCHANGED <<nreq, hits, issued, reqs, store, log>>

(***************************************************************************)
(* A request arrives and is put in the lowest free slot.  With conc =      *)
(* FALSE requests are served one after the other.  Requests to the gateway *)
(* start at app.use(limiter); the telemetry router's handlers are reached  *)
(* directly (no middleware of theirs is in the router file).               *)
(***************************************************************************)
Free(s) == reqs[s].pc = "idle"

(***************************************************************************)
(* The response has been sent: the request and what it wrote leave the     *)
(* process.                                                                *)
(***************************************************************************)
Release(s) ==
  /\ reqs[s].pc = "done"
  /\ reqs' = [reqs EXCEPT ![s] = IdleReq]
  /\ store' = [store EXCEPT ![s] = <<>>]
  /\ UNCHANGED <<now, nreq, hits, issued, log>>

GatewayRoutes == {"/auth/token", "/health", "/ingest", "/ingest/bulk"}

Arrive(cap, conc, route, ip, auth, body) ==
  /\ nreq < cap
  /\ \E s \in Slots : Free(s)
  /\ conc \/ \A s \in Slots : Free(s)
  /\ LET s == CHOOSE x \in Slots : Free(x) /\ \A y \in Slots : Free(y) => x <= y
     IN /\ reqs' = [reqs EXCEPT ![s] =
                      [IdleReq EXCEPT !.pc = IF route \in GatewayRoutes
                                             THEN "limiter" ELSE "handler",
                                      !.route = route, !.ip = ip,
                                      !.auth = auth, !.body = body]]
  /\ nreq' = nreq + 1
  /\ UNCHANGED <<now, hits, issued, store, log>>

(***************************************************************************)
(* app.use(limiter) and the ingestLimiter of the two ingestion routes.     *)
(***************************************************************************)
AfterLimiterToHandler(route) ==
  IF route \in {"/ingest", "/ingest/bulk"} THEN "handler" ELSE "handler"

AfterLimiter(route) ==
  IF route \in {"/ingest", "/ingest/bulk"} THEN "ingestLimiter" ELSE "handler"

Admit(s, name, windowMs, max, message, next) ==
  LET r == reqs[s]
      c == increment(hits[name][r.ip], DateNow(now), windowMs)
  IN /\ hits' = [hits EXCEPT ![name][r.ip] = c]
     /\ log' = [log EXCEPT ![name][r.ip] =
                  Append(@, [t |-> DateNow(now), ok |-> ~overLimit(c, max)])]
     /\ reqs' = [reqs EXCEPT ![s] =
                   IF overLimit(c, max)
                   THEN [Stage(r, name) EXCEPT !.pc = "done",
                                               !.resp = RateLimited(message)]
                   ELSE [Stage(r, name) EXCEPT !.pc = next]]

limiterOptions ==
  [windowMs |-> rateWindowMs, max |-> rateMaxReq,
   message |-> "Too many requests from this IP, please try again later."]

ingestLimiterAsLimiter ==
  [windowMs |-> rateWindowMs, max |-> rateMaxReq,
   message |-> "Rate limit exceeded for telemetry ingestion."]

ingestLimiterOptions ==
  [windowMs |-> ingestWindowMs, max |-> ingestMaxReq,
   message |-> "Rate limit exceeded for telemetry ingestion."]

Limiter(s) ==
  /\ reqs[s].pc = "limiter"
  /\ Admit(s, "limiter", limiterOptions.windowMs, limiterOptions.max,
           limiterOptions.message, AfterLimiter(reqs[s].route))
  /\ UNCHANGED <<now, nreq, issued, store>>

IngestLimiterOnGeneralCounter(s) ==
  /\ reqs[s].pc = "ingestLimiter"
  /\ Admit(s, "limiter", ingestLimiterOptions.windowMs,
           ingestLimiterOptions.max, ingestLimiterOptions.message, "auth")
  /\ UNCHANGED <<now, nreq, issued, store>>

IngestLimiter(s) ==
  /\ reqs[s].pc = "ingestLimiter"
  /\ Admit(s, "ingestLimiter", ingestLimiterOptions.windowMs,
           ingestLimiterOptions.max, ingestLimiterOptions.message, "auth")
  /\ UNCHANGED <<now, nreq, issued, store>>

(***************************************************************************)
(* authenticateToken (index.js:107-125).                                   *)
(***************************************************************************)
authenticateTokenDecodeOnly(r, t) ==
  IF r.auth = NoToken
  THEN [Stage(r, "auth") EXCEPT
          !.pc = "done",
          !.resp = Resp(401, "Access token required", "MISSING_TOKEN")]
  ELSE [Stage(r, "auth") EXCEPT
          !.pc = "handler", !.verifiedAt = t,
          !.deviceId = r.auth.deviceId, !.tokenExp = r.auth.exp]

authenticateTokenShared(r, t) ==
  LET busy == {s \in Slots : /\ reqs[s].pc \in {"handler", "await"}
                             /\ reqs[s].deviceId # Undefined}
  IN IF r.auth = NoToken
     THEN [Stage(r, "auth") EXCEPT
             !.pc = "done",
             !.resp = Resp(401, "Access token required", "MISSING_TOKEN")]
     ELSE IF jwtVerifyErr(r.auth, JWT_SECRET, t) # "none"
     THEN [Stage(r, "auth") EXCEPT
             !.pc = "done", !.verifiedAt = t,
             !.resp = Resp(403, "Invalid or expired token", "INVALID_TOKEN")]
     ELSE [Stage(r, "auth") EXCEPT
             !.pc = "handler", !.verifiedAt = t,
             !.deviceId = IF busy = {} THEN r.auth.deviceId
                          ELSE reqs[CHOOSE s \in busy : TRUE].deviceId,
             !.tokenExp = r.auth.exp]

authenticateToken(r, t) ==
  IF r.auth = NoToken
  THEN [Stage(r, "auth") EXCEPT
          !.pc = "done",
          !.resp = Resp(401, "Access token required", "MISSING_TOKEN")]
  ELSE IF jwtVerifyErr(r.auth, JWT_SECRET, t) # "none"
  THEN [Stage(r, "auth") EXCEPT
          !.pc = "done", !.verifiedAt = t,
          !.resp = Resp(403, "Invalid or expired token", "INVALID_TOKEN")]
  ELSE [Stage(r, "auth") EXCEPT
          !.pc = "handler", !.verifiedAt = t,
          !.deviceId = r.auth.deviceId, !.tokenExp = r.auth.exp]

AuthenticateToken(s) ==
  /\ reqs[s].pc = "auth"
  /\ reqs' = [reqs EXCEPT ![s] = authenticateToken(reqs[s], now)]
  /\ UNCHANGED <<now, nreq, hits, issued, store, log>>

(***************************************************************************)
(* POST /auth/token (index.js:128-155).                                    *)
(***************************************************************************)
Falsy(x) == x = Undefined \/ x = ""

expectedSecretPrefixOnly(deviceId) == DEVICE_SECRET_PREFIX

expectedSecret(deviceId) == DEVICE_SECRET_PREFIX \o deviceId

InvalidCredentials == Resp(401, "Invalid device credentials", "INVALID_CREDENTIALS")

authTokenSignsSecret(r, t) ==
  LET deviceId == r.body.deviceId
      deviceSecret == r.body.deviceSecret
  IN IF Falsy(deviceId) \/ Falsy(deviceSecret)
     THEN [r EXCEPT !.pc = "done",
                    !.resp = Resp(400, "Device ID and secret are required",
                                  "MISSING_CREDENTIALS")]
     ELSE IF deviceSecret # expectedSecret(deviceId)
     THEN [r EXCEPT !.pc = "done", !.resp = InvalidCredentials]
     ELSE [r EXCEPT !.pc = "done",
                    !.resp = [Resp(200, "", "") EXCEPT
                                !.token = jwtSign(deviceSecret, DateNow(t) \div 1000,
                                                  JWT_SECRET, JWT_EXPIRES_IN)]]

authToken(r, t) ==
  LET deviceId == r.body.deviceId
      deviceSecret == r.body.deviceSecret
  IN IF Falsy(deviceId) \/ Falsy(deviceSecret)
     THEN [r EXCEPT !.pc = "done",
                    !.resp = Resp(400, "Device ID and secret are required",
                                  "MISSING_CREDENTIALS")]
     ELSE IF deviceSecret # expectedSecret(deviceId)
     THEN [r EXCEPT !.pc = "done", !.resp = InvalidCredentials]
     ELSE [r EXCEPT !.pc = "done",
                    !.resp = [Resp(200, "", "") EXCEPT
                                !.token = jwtSign(deviceId, DateNow(t) \div 1000,
                                                  JWT_SECRET, JWT_EXPIRES_IN)]]

AuthToken(s) ==
  /\ reqs[s].pc = "handler"
  /\ reqs[s].route = "/auth/token"
  /\ LET r == authToken(reqs[s], now)
     IN /\ reqs' = [reqs EXCEPT ![s] = r]
        /\ issued' = IF r.resp.status = 200 THEN issued \cup {r.resp.token}
                     ELSE issued
  /\ UNCHANGED <<now, nreq, hits, store, log>>

(***************************************************************************)
(* telemetrySchema and bulkTelemetrySchema (index.js:89-104), validated    *)
(* with Joi's defaults: a key the schema does not name is an error, a      *)
(* string is not empty, and a value is converted while it is validated, so *)
(* that the value the handler goes on with has an ISO date string in the   *)
(* form of toISOString.  The unknown field of a reading is the set of its  *)
(* keys that telemetrySchema does not name.                                *)
(***************************************************************************)
Reading(deviceId, sensorType, value, unit, timestamp, location) ==
  [deviceId |-> deviceId, sensorType |-> sensorType, value |-> value,
   unit |-> unit, timestamp |-> timestamp, location |-> location,
   metadata |-> Undefined, unknown |-> {}]

WithKeys(r, keys) == [r EXCEPT !.unknown = keys]

optionalString(x) == x = Undefined \/ Len(x) >= 1

telemetrySchema(r) ==
  /\ r.deviceId # Undefined
  /\ Len(r.deviceId) >= 1
  /\ Len(r.deviceId) <= DeviceIdMaxLen
  /\ r.sensorType \in allowedSensorTypes
  /\ r.value.kind = "num"
  /\ r.value.n >= ValueMin
  /\ r.value.n <= ValueMax
  /\ optionalString(r.unit)
  /\ \/ r.timestamp.kind \in {"absent", "iso", "isoOffset", "numHuge"}
     \/ r.timestamp.kind = "num" /\ r.timestamp.v > 0
  /\ optionalString(r.location)
  /\ r.unknown = {}

validatedValue(r) ==
  [r EXCEPT !.timestamp = IF @.kind = "isoOffset" THEN toISOString(@.v) ELSE @]

bulkTelemetrySchemaArrayOnly(body) ==
  /\ body.hasReadings
  /\ Len(body.readings) >= BulkMin
  /\ Len(body.readings) <= BulkMax

bulkTelemetrySchema(body) ==
  /\ body.deviceId = Undefined
  /\ body.deviceSecret = Undefined
  /\ body.location = Undefined
  /\ body.hasReadings
  /\ Len(body.readings) >= BulkMin
  /\ Len(body.readings) <= BulkMax
  /\ \A i \in 1..Len(body.readings) : telemetrySchema(body.readings[i])

ValidationError(error) == Resp(400, error, "VALIDATION_ERROR")

(***************************************************************************)
(* The document both ingestion handlers hand to createDocument             *)
(* (index.js:174-198, 235-259).  ID.unique() is not modelled.  For a       *)
(* number beyond the range of Date, toISOString throws a RangeError        *)
(* before the document is built.                                           *)
(***************************************************************************)
deviceIdMatches(readingDeviceId, reqDeviceId) == readingDeviceId = reqDeviceId

RangeError == [ok |-> FALSE, code |-> 0, message |-> "Invalid time value"]

invalidDate(timestamp) == timestamp.kind = "numHuge"

normTimestampAsMillis(timestamp, t) ==
  IF timestamp.kind = "num" THEN toISOString(timestamp.v)
  ELSE IF timestamp.kind = "absent" THEN toISOString(DateNow(t))
  ELSE timestamp

normTimestamp(timestamp, t) ==
  IF timestamp.kind = "num" THEN toISOString(timestamp.v * 1000)
  ELSE IF timestamp.kind = "absent" THEN toISOString(DateNow(t))
  ELSE timestamp

DocumentCallerTime(value, t) ==
  [deviceId |-> value.deviceId,
   sensorType |-> value.sensorType,
   value |-> value.value,
   unit |-> IF Falsy(value.unit) THEN getUnit(value.sensorType) ELSE value.unit,
   timestamp |-> normTimestamp(value.timestamp, t),
   location |-> IF Falsy(value.location) THEN "unknown" ELSE value.location,
   isAnomalous |-> FALSE,
   ingestedAt |-> normTimestamp(value.timestamp, t),
   metadata |-> IF Falsy(value.metadata) THEN "{}" ELSE value.metadata]

Document(value, t) ==
  [deviceId |-> value.deviceId,
   sensorType |-> value.sensorType,
   value |-> value.value,
   unit |-> IF Falsy(value.unit) THEN getUnit(value.sensorType) ELSE value.unit,
   timestamp |-> normTimestamp(value.timestamp, t),
   location |-> IF Falsy(value.location) THEN "unknown" ELSE value.location,
   isAnomalous |-> FALSE,
   ingestedAt |-> toISOString(DateNow(t)),
   metadata |-> IF Falsy(value.metadata) THEN "{}" ELSE value.metadata]

(***************************************************************************)
(* The store: createDocument resolves, or rejects with an error carrying a *)
(* code and a message.  store[s] holds the documents the request in slot s *)
(* has had created; the gateway never reads the store.  Of a batch longer  *)
(* than MaxLen only the run in which every write succeeds is explored.     *)
(***************************************************************************)
StoreOk == [ok |-> TRUE, code |-> 0, message |-> ""]
StoreErr(code, message) == [ok |-> FALSE, code |-> code, message |-> message]
StoreOutcomes ==
  {StoreOk, StoreErr(401, "unauthorized"), StoreErr(404, "not found"),
   StoreErr(500, "server error")}

ExploredOutcomes(r) ==
  IF Len(r.body.readings) > MaxLen THEN {StoreOk} ELSE StoreOutcomes

createDocument(r, i, doc) ==
  [Stage(r, "store") EXCEPT !.pc = "await", !.idx = i, !.pending = <<doc>>,
                            !.calls = Append(@, i)]

(***************************************************************************)
(* POST /ingest (index.js:163-215): up to the await, then the rest.        *)
(***************************************************************************)
ingestCatchUnclassified(error) ==
  Resp(500, "Internal server error", "INGESTION_ERROR")

ingestCatch(error) ==
  IF error.code = 401
  THEN Resp(500, "Database authentication failed", "DB_AUTH_ERROR")
  ELSE IF error.code = 404
  THEN Resp(500, "Database or collection not found", "DB_NOT_FOUND")
  ELSE Resp(500, "Internal server error", "INGESTION_ERROR")

ingestNoReturn(r, t) ==
  LET value == validatedValue(r.body.readings[1])
      v == Stage(r, "schema")
      d == Stage(v, "deviceId")
  IN IF ~(r.body.hasReadings /\ telemetrySchema(r.body.readings[1]))
     THEN [v EXCEPT !.pc = "done",
                    !.resp = ValidationError("Invalid telemetry data")]
     ELSE IF ~deviceIdMatches(value.deviceId, r.deviceId)
     THEN [createDocument(d, 1, Document(value, t)) EXCEPT
             !.resp = Resp(403, "Device ID mismatch", "DEVICE_ID_MISMATCH")]
     ELSE IF invalidDate(value.timestamp)
     THEN [d EXCEPT !.pc = "done", !.resp = ingestCatch(RangeError)]
     ELSE createDocument(d, 1, Document(value, t))

ingest(r, t) ==
  LET value == validatedValue(r.body.readings[1])
      v == Stage(r, "schema")
      d == Stage(v, "deviceId")
  IN IF ~(r.body.hasReadings /\ telemetrySchema(r.body.readings[1]))
     THEN [v EXCEPT !.pc = "done",
                    !.resp = ValidationError("Invalid telemetry data")]
     ELSE IF ~deviceIdMatches(value.deviceId, r.deviceId)
     THEN [d EXCEPT !.pc = "done",
                    !.resp = Resp(403, "Device ID mismatch", "DEVICE_ID_MISMATCH")]
     ELSE IF invalidDate(value.timestamp)
     THEN [d EXCEPT !.pc = "done", !.resp = ingestCatch(RangeError)]
     ELSE createDocument(d, 1, Document(value, t))

ingestResume(r, out) ==
  [r EXCEPT !.pc = "done", !.pending = <<>>, !.outs = Append(@, out),
            !.resp = IF out.ok
                     THEN [Resp(201, "", "") EXCEPT
                             !.results = <<[i |-> 1,
                                            timestamp |-> r.pending[1].timestamp,
                                            sensorType |-> r.pending[1].sensorType]>>]
                     ELSE ingestCatch(out)]

Ingest(s) ==
  /\ reqs[s].pc = "handler"
  /\ reqs[s].route = "/ingest"
  /\ reqs' = [reqs EXCEPT ![s] = ingest(reqs[s], now)]
  /\ UNCHANGED <<now, nreq, hits, issued, store, log>>

IngestResume(s) ==
  /\ reqs[s].pc = "await"
  /\ reqs[s].route = "/ingest"
  /\ \E out \in StoreOutcomes :
       /\ reqs' = [reqs EXCEPT ![s] = ingestResume(reqs[s], out)]
       /\ store' = IF out.ok
                   THEN [store EXCEPT ![s] = Append(@, reqs[s].pending[1])]
                   ELSE store
  /\ UNCHANGED <<now, nreq, hits, issued, log>>

(***************************************************************************)
(* POST /ingest/bulk (index.js:218-275).  The for loop runs on without     *)
(* yielding until it calls createDocument or runs out of readings.         *)
(***************************************************************************)
pushResult(results, entry) == Append(results, entry)

pushErrorFront(errors, entry) == <<entry>> \o errors

pushError(errors, entry) == Append(errors, entry)

bulkResponseCountsInput(r) ==
  [Resp(201, "", "") EXCEPT
     !.processed = Len(r.body.readings),
     !.failed = Len(r.errors),
     !.results = r.results,
     !.errors = r.errors, !.hasErrors = Len(r.errors) > 0]

bulkResponse(r) ==
  [Resp(201, "", "") EXCEPT
     !.processed = Len(r.results), !.failed = Len(r.errors),
     !.results = r.results,
     !.errors = r.errors, !.hasErrors = Len(r.errors) > 0]

RECURSIVE bulkLoop(_, _, _)
bulkLoop(r, i, t) ==
  IF i > Len(r.body.readings)
  THEN [r EXCEPT !.pc = "done", !.idx = i, !.resp = bulkResponse(r)]
  ELSE LET reading == validatedValue(r.body.readings[i])
           d == Stage(r, "deviceId")
       IN IF ~deviceIdMatches(reading.deviceId, r.deviceId)
          THEN bulkLoop([d EXCEPT !.errors =
                           pushError(@, [i |-> i, reading |-> reading,
                                         error |-> "Device ID mismatch"])],
                        i + 1, t)
          ELSE IF invalidDate(reading.timestamp)
          THEN bulkLoop([d EXCEPT !.errors =
                           pushError(@, [i |-> i, reading |-> reading,
                                         error |-> RangeError.message])],
                        i + 1, t)
          ELSE createDocument(d, i, Document(reading, t))

bulk(r, t) ==
  IF ~bulkTelemetrySchema(r.body)
  THEN [Stage(r, "schema") EXCEPT
          !.pc = "done", !.resp = ValidationError("Invalid bulk telemetry data")]
  ELSE bulkLoop([Stage(r, "schema") EXCEPT !.looped = TRUE], 1, t)

bulkItemThrow(r, err, t) ==
  [r EXCEPT !.pc = "done", !.pending = <<>>, !.outs = Append(@, err),
            !.resp = Resp(500, "Internal server error", "BULK_INGESTION_ERROR")]

bulkItemCatch(r, err, t) ==
  bulkLoop([r EXCEPT !.pending = <<>>, !.outs = Append(@, err),
                     !.errors = pushError(@, [i |-> r.idx,
                                              reading |->
                                                validatedValue(r.body.readings[r.idx]),
                                              error |-> err.message])],
           r.idx + 1, t)

bulkItemDoneAlsoFailed(r, t) ==
  bulkLoop([r EXCEPT !.pending = <<>>, !.outs = Append(@, StoreOk),
                     !.results = pushResult(@, [i |-> r.idx,
                                                timestamp |-> r.pending[1].timestamp,
                                                sensorType |-> r.pending[1].sensorType]),
                     !.errors = pushError(@, [i |-> r.idx,
                                              reading |->
                                                validatedValue(r.body.readings[r.idx]),
                                              error |-> ""])],
           r.idx + 1, t)

bulkItemDone(r, t) ==
  bulkLoop([r EXCEPT !.pending = <<>>, !.outs = Append(@, StoreOk),
                     !.results = pushResult(@, [i |-> r.idx,
                                                timestamp |-> r.pending[1].timestamp,
                                                sensorType |-> r.pending[1].sensorType])],
           r.idx + 1, t)

Bulk(s) ==
  /\ reqs[s].pc = "handler"
  /\ reqs[s].route = "/ingest/bulk"
  /\ reqs' = [reqs EXCEPT ![s] = bulk(reqs[s], now)]
  /\ UNCHANGED <<now, nreq, hits, issued, store, log>>

BulkResume(s) ==
  /\ reqs[s].pc = "await"
  /\ reqs[s].route = "/ingest/bulk"
  /\ \E out \in StoreOutcomes :
       /\ reqs' = [reqs EXCEPT ![s] = IF out.ok THEN bulkItemDone(reqs[s], now)
                                      ELSE bulkItemCatch(reqs[s], out, now)]
       /\ store' = IF out.ok
                   THEN [store EXCEPT ![s] = Append(@, reqs[s].pending[1])]
                   ELSE store
  /\ UNCHANGED <<now, nreq, hits, issued, log>>

(***************************************************************************)
(* GET /health (index.js:158-160), behind app.use(limiter) only.           *)
(***************************************************************************)
Health(s) ==
  /\ reqs[s].pc = "handler"
  /\ reqs[s].route = "/health"
  /\ reqs' = [reqs EXCEPT ![s] = [@ EXCEPT !.pc = "done",
                                           !.resp = Resp(200, "", "")]]
  /\ UNCHANGED <<now, nreq, hits, issued, store, log>>

(***************************************************************************)
(* The telemetry router (devices.js:337-577).  Its validators are          *)
(* express-validator chains; its handlers read the device id from the      *)
(* body and never look at the token of the request.                        *)
(***************************************************************************)
sensorReadingValidation(body) ==
  LET r == body.readings[1]
  IN /\ body.hasReadings
     /\ ~Falsy(r.deviceId)
     /\ r.sensorType \in allowedSensorTypes
     /\ r.value.kind = "num"
     /\ r.timestamp.kind \in {"absent", "iso", "isoOffset"}
     /\ ~Falsy(r.location)

bulkReadingsValidation(body) ==
  /\ ~Falsy(body.deviceId)
  /\ body.hasReadings
  /\ Len(body.readings) >= 1
  /\ \A i \in 1..Len(body.readings) :
       /\ body.readings[i].sensorType \in allowedSensorTypes
       /\ body.readings[i].value.kind = "num"
       /\ body.readings[i].timestamp.kind \in {"absent", "iso", "isoOffset"}

sensorReading(deviceId, reading, location, t) ==
  [deviceId |-> deviceId,
   sensorType |-> reading.sensorType,
   value |-> reading.value,
   unit |-> getUnit(reading.sensorType),
   timestamp |-> IF reading.timestamp.kind = "absent"
                 THEN toISOString(DateNow(t)) ELSE reading.timestamp,
   location |-> location,
   isAnomalous |-> FALSE,
   ingestedAt |-> TsAbsent,
   metadata |-> Undefined]

RouterValidationErrors == Resp(400, "Validation errors", "")

telemetryIngest(r, t) ==
  LET b == r.body.readings[1]
  IN IF ~sensorReadingValidation(r.body)
     THEN [r EXCEPT !.pc = "done", !.resp = RouterValidationErrors]
     ELSE createDocument(r, 1, sensorReading(b.deviceId, b, b.location, t))

telemetryIngestResume(r, out) ==
  [r EXCEPT !.pc = "done", !.pending = <<>>, !.outs = Append(@, out),
            !.resp = IF out.ok THEN Resp(201, "", "")
                     ELSE Resp(500, out.message, "")]

RECURSIVE telemetryLoop(_, _, _)
telemetryLoop(r, i, t) ==
  IF i > Len(r.body.readings)
  THEN [r EXCEPT !.pc = "done", !.idx = i, !.resp = bulkResponse(r)]
  ELSE LET reading == r.body.readings[i]
       IN createDocument(r, i,
            sensorReading(r.body.deviceId, reading,
                          IF Falsy(reading.location) THEN r.body.location
                          ELSE reading.location, t))

telemetryBulk(r, t) ==
  IF ~bulkReadingsValidation(r.body)
  THEN [r EXCEPT !.pc = "done", !.resp = RouterValidationErrors]
  ELSE telemetryLoop([r EXCEPT !.looped = TRUE], 1, t)

telemetryBulkResume(r, out, t) ==
  telemetryLoop(
    IF out.ok
    THEN [r EXCEPT !.pending = <<>>, !.outs = Append(@, out),
                   !.results = Append(@, [i |-> r.idx,
                                          timestamp |-> r.pending[1].timestamp,
                                          sensorType |-> r.pending[1].sensorType])]
    ELSE [r EXCEPT !.pending = <<>>, !.outs = Append(@, out),
                   !.errors = Append(@, [i |-> r.idx,
                                         reading |-> r.body.readings[r.idx],
                                         error |-> out.message])],
    r.idx + 1, t)

TelemetryIngest(s) ==
  /\ reqs[s].pc = "handler"
  /\ reqs[s].route = "/api/telemetry/ingest"
  /\ reqs' = [reqs EXCEPT ![s] = telemetryIngest(reqs[s], now)]
  /\ UNCHANGED <<now, nreq, hits, issued, store, log>>

TelemetryIngestResume(s) ==
  /\ reqs[s].pc = "await"
  /\ reqs[s].route = "/api/telemetry/ingest"
  /\ \E out \in StoreOutcomes :
       /\ reqs' = [reqs EXCEPT ![s] = telemetryIngestResume(reqs[s], out)]
       /\ store' = IF out.ok
                   THEN [store EXCEPT ![s] = Append(@, reqs[s].pending[1])]
                   ELSE store
  /\ UNCHANGED <<now, nreq, hits, issued, log>>

TelemetryBulk(s) ==
  /\ reqs[s].pc = "handler"
  /\ reqs[s].route = "/api/telemetry/ingest/bulk"
  /\ reqs' = [reqs EXCEPT ![s] = telemetryBulk(reqs[s], now)]
  /\ UNCHANGED <<now, nreq, hits, issued, store, log>>

TelemetryBulkResume(s) ==
  /\ reqs[s].pc = "await"
  /\ reqs[s].route = "/api/telemetry/ingest/bulk"
  /\ \E out \in ExploredOutcomes(reqs[s]) :
       /\ reqs' = [reqs EXCEPT ![s] = telemetryBulkResume(reqs[s], out, now)]
       /\ store' = IF out.ok
                   THEN [store EXCEPT ![s] = Append(@, reqs[s].pending[1])]
                   ELSE store
  /\ UNCHANGED <<now, nreq, hits, issued, log>>

(***************************************************************************)
(* The requests a client can send.                                         *)
(***************************************************************************)
rA == Reading("d1", "temperature", Num(21), Undefined, TsAbsent, Undefined)
rB == Reading("d1", "pressure", Num(3), Undefined, TsIso(1000), "lab")
rC == Reading("d2", "flow", Num(5), "gpm", TsNum(2), "lab")
rD == Reading("d1", "bogus", Num(21), Undefined, TsAbsent, Undefined)
rE == Reading("d1", "temperature", Text, Undefined, TsAbsent, Undefined)
rF == Reading("d1", "temperature", Num(20000), Undefined, TsAbsent, Undefined)

Readings == {rA, rC, rD, rE, rF}

SeqsUpTo(S, n) == UNION {[1..k -> S] : k \in 0..n}

TokenBodies ==
  {[NoBody EXCEPT !.deviceId = d, !.deviceSecret = x] :
     d \in {Undefined, ""} \cup Devices,
     x \in {Undefined, "p-", "q-d1"} \cup {expectedSecret(e) : e \in Devices}}

GoodTokenBodies ==
  {[NoBody EXCEPT !.deviceId = d, !.deviceSecret = expectedSecret(d)] :
     d \in Devices}

SingleBody(r) == [NoBody EXCEPT !.hasReadings = TRUE, !.readings = <<r>>]

IngestBodies == {SingleBody(r) : r \in Readings}

TooMany == [i \in 1..(BulkMax + 1) |-> rA]

BulkBody(rs) == [NoBody EXCEPT !.hasReadings = TRUE, !.readings = rs]

BulkBodies ==
  {NoBody} \cup {BulkBody(rs) : rs \in SeqsUpTo(Readings, MaxLen) \cup {TooMany}}

Auths == {NoToken, Forged} \cup issued

(***************************************************************************)
(* Spec: the ingestion pipeline of device d1, one request at a time from   *)
(* one address, the clock up to MaxIngestTime (a token expires at 2):      *)
(* every body of IngestBodies with every token, every body of BulkBodies   *)
(* with every issued token, two batches without a good token.              *)
(***************************************************************************)
ArriveToken ==
  \E body \in {b \in GoodTokenBodies : b.deviceId = "d1"} :
    Arrive(MaxReqs, FALSE, "/auth/token", "10.0.0.1", NoToken, body)

ArriveIngest ==
  \E auth \in Auths, body \in IngestBodies :
    Arrive(MaxReqs, FALSE, "/ingest", "10.0.0.1", auth, body)

ArriveBulk ==
  \E auth \in issued, body \in BulkBodies :
    Arrive(MaxReqs, FALSE, "/ingest/bulk", "10.0.0.1", auth, body)

ArriveBulkUnauthorized ==
  \E auth \in {NoToken, Forged}, body \in {BulkBody(<<rA, rA>>), BulkBody(<<rA, rD>>)} :
    Arrive(MaxReqs, FALSE, "/ingest/bulk", "10.0.0.1", auth, body)

Next ==
  \/ Tick(MaxIngestTime)
  \/ ArriveToken
  \/ ArriveIngest
  \/ ArriveBulk
  \/ ArriveBulkUnauthorized
  \/ \E s \in Slots : Limiter(s)
  \/ \E s \in Slots : IngestLimiter(s)
  \/ \E s \in Slots : AuthenticateToken(s)
  \/ \E s \in Slots : AuthToken(s)
  \/ \E s \in Slots : Ingest(s)
  \/ \E s \in Slots : IngestResume(s)
  \/ \E s \in Slots : Bulk(s)
  \/ \E s \in Slots : BulkResume(s)
  \/ \E s \in Slots : Release(s)

Spec == Init /\ [][Next]_vars

(***************************************************************************)
(* SpecAuth: the token service, every body of TokenBodies, and single      *)
(* readings sent with the tokens it has issued.                            *)
(***************************************************************************)
ArriveAnyToken ==
  \E body \in TokenBodies :
    Arrive(MaxAuthReqs, FALSE, "/auth/token", "10.0.0.1", NoToken, body)

ArriveAuthIngest ==
  \E auth \in Auths, body \in {SingleBody(rA), SingleBody(rC)} :
    Arrive(MaxAuthReqs, FALSE, "/ingest", "10.0.0.1", auth, body)

NextAuth ==
  \/ Tick(MaxTime)
  \/ ArriveAnyToken
  \/ ArriveAuthIngest
  \/ \E s \in Slots : Limiter(s)
  \/ \E s \in Slots : IngestLimiter(s)
  \/ \E s \in Slots : AuthenticateToken(s)
  \/ \E s \in Slots : AuthToken(s)
  \/ \E s \in Slots : Ingest(s)
  \/ \E s \in Slots : IngestResume(s)
  \/ \E s \in Slots : Release(s)

SpecAuth == Init /\ [][NextAuth]_vars

(***************************************************************************)
(* SpecRate: the two limiters, two addresses, requests that stop at the    *)
(* limiters, at authenticateToken or at the health handler.                *)
(***************************************************************************)
ArriveHealth ==
  \E ip \in IPs : Arrive(MaxRateReqs, FALSE, "/health", ip, NoToken, NoBody)

ArriveUnauthorized ==
  \E ip \in IPs :
    Arrive(MaxRateReqs, FALSE, "/ingest", ip, NoToken, SingleBody(rA))

NextRate ==
  \/ Tick(MaxTime)
  \/ ArriveHealth
  \/ ArriveUnauthorized
  \/ \E s \in Slots : Limiter(s)
  \/ \E s \in Slots : IngestLimiter(s)
  \/ \E s \in Slots : AuthenticateToken(s)
  \/ \E s \in Slots : Health(s)
  \/ \E s \in Slots : Release(s)

SpecRate == Init /\ [][NextRate]_vars

(***************************************************************************)
(* SpecRouter: the telemetry router next to the token endpoint.  Its       *)
(* routes are documented as private (requires device token), so a request  *)
(* reaches a handler with a token that authenticateToken accepts.  The     *)
(* clock stands still: the router reads it only to fill in timestamps.     *)
(***************************************************************************)
RouterBulkBodies ==
  {[NoBody EXCEPT !.deviceId = d, !.hasReadings = TRUE, !.readings = rs,
                  !.location = l] :
     d \in Devices, l \in {Undefined, "site"},
     rs \in SeqsUpTo({rA, rC, rD}, MaxLen) \cup {TooMany}}

ArriveRouterToken ==
  \E body \in GoodTokenBodies :
    Arrive(MaxReqs, FALSE, "/auth/token", "10.0.0.1", NoToken, body)

ArriveTelemetryIngest ==
  \E auth \in issued, body \in {SingleBody(r) : r \in {rA, rB, rC, rD}} :
    /\ jwtVerifyErr(auth, JWT_SECRET, now) = "none"
    /\ Arrive(MaxReqs, FALSE, "/api/telemetry/ingest", "10.0.0.1", auth, body)

ArriveTelemetryBulk ==
  \E auth \in issued, body \in RouterBulkBodies :
    /\ jwtVerifyErr(auth, JWT_SECRET, now) = "none"
    /\ Arrive(MaxReqs, FALSE, "/api/telemetry/ingest/bulk", "10.0.0.1", auth, body)

NextRouter ==
  \/ ArriveRouterToken
  \/ ArriveTelemetryIngest
  \/ ArriveTelemetryBulk
  \/ \E s \in Slots : Limiter(s)
  \/ \E s \in Slots : AuthToken(s)
  \/ \E s \in Slots : TelemetryIngest(s)
  \/ \E s \in Slots : TelemetryIngestResume(s)
  \/ \E s \in Slots : TelemetryBulk(s)
  \/ \E s \in Slots : TelemetryBulkResume(s)
  \/ \E s \in Slots : Release(s)

SpecRouter == Init /\ [][NextRouter]_vars

(***************************************************************************)
(* Properties.                                                             *)
(***************************************************************************)
HandedToStore(s) == store[s] \o reqs[s].pending

\* C1: every record handed to the store carries the deviceId bound to the
\* access token of the request that wrote it (a reading with another
\* deviceId is never written, under either deviceId).
C1_DeviceIdentityBinding ==
  \A s \in Slots :
    \A k \in 1..Len(HandedToStore(s)) :
      HandedToStore(s)[k].deviceId = reqs[s].auth.deviceId

(***************************************************************************)
(* What the properties say of a reading, written out from the claims       *)
(* rather than taken from the schema operators.                            *)
(***************************************************************************)
IsBulk(s) == reqs[s].route = "/ingest/bulk"
IsIngest(s) == reqs[s].route \in {"/ingest", "/ingest/bulk"}
Done(s) == reqs[s].pc = "done"
N(s) == Len(reqs[s].body.readings)
Indexes(entries) == {entries[k].i : k \in 1..Len(entries)}
Increasing(entries) ==
  \A k \in 1..Len(entries) : \A m \in 1..Len(entries) :
    k < m => entries[k].i < entries[m].i

SchemaOk(r) ==
  /\ r.deviceId \in Devices
  /\ r.sensorType \in {"flow", "pressure", "temperature", "humidity", "ph",
                       "turbidity", "dissolvedOxygen", "conductivity"}
  /\ r.value.kind = "num"
  /\ r.value.n >= -1000
  /\ r.value.n <= 10000
  /\ r.timestamp.kind # "bad"

Mismatch(s, j) == reqs[s].body.readings[j].deviceId # reqs[s].auth.deviceId
Matching(s) == {j \in 1..N(s) : ~Mismatch(s, j)}
Invalid(s) == {j \in 1..N(s) : ~SchemaOk(reqs[s].body.readings[j])}
StoreFailures(s) ==
  {k \in 1..Len(reqs[s].errors) : reqs[s].errors[k].error # "Device ID mismatch"}

\* C2: once a batch is in the processing loop, a failed reading (device-id
\* mismatch or a failed store write) never aborts it: the request ends 201,
\* every reading is accounted for, and a store write was issued for exactly
\* the readings whose deviceId matches the token, whatever failed before.
C2_FailureIsolation ==
  \A s \in Slots :
    (IsBulk(s) /\ reqs[s].looped) =>
      /\ Done(s) =>
           /\ reqs[s].resp.status = 201
           /\ Indexes(reqs[s].results) \cup Indexes(reqs[s].errors) = 1..N(s)
           /\ {reqs[s].calls[k] : k \in 1..Len(reqs[s].calls)} = Matching(s)
      /\ reqs[s].pc = "await" =>
           /\ Indexes(reqs[s].results) \cup Indexes(reqs[s].errors)
                = 1..(reqs[s].idx - 1)
           /\ ~Mismatch(s, reqs[s].idx)

C2_Witness ==
  \E s \in Slots :
    /\ IsBulk(s) /\ Done(s) /\ N(s) = 2
    /\ StoreFailures(s) # {}
    /\ reqs[s].errors[1].i = 1
    /\ Len(reqs[s].results) = 1
    /\ reqs[s].results[1].i = 2
    /\ Len(store[s]) = 1

C4_OrderPreserved ==
  \A s \in Slots :
    IsBulk(s) =>
      /\ Increasing(reqs[s].results)
      /\ Increasing(reqs[s].errors)
      /\ Increasing(reqs[s].resp.results)
      /\ Increasing(reqs[s].resp.errors)
      /\ \A k \in 1..Len(reqs[s].errors) :
           reqs[s].errors[k].reading = reqs[s].body.readings[reqs[s].errors[k].i]
      /\ \A k \in 1..Len(reqs[s].results) :
           reqs[s].results[k].sensorType
             = reqs[s].body.readings[reqs[s].results[k].i].sensorType
      /\ Done(s) /\ reqs[s].looped =>
           /\ reqs[s].resp.results = reqs[s].results
           /\ reqs[s].resp.errors = reqs[s].errors

C4_Witness ==
  \E s \in Slots :
    /\ IsBulk(s) /\ Done(s)
    /\ Len(reqs[s].resp.errors) = 2
    /\ reqs[s].resp.errors[1].error # "Device ID mismatch"
    /\ reqs[s].resp.errors[2].error = "Device ID mismatch"

\* C5: a request to /ingest or /ingest/bulk whose token is missing, forged
\* or expired when verified, or whose body fails the schema, causes no
\* store call at all.
NoStoreCall(s) ==
  /\ reqs[s].calls = <<>>
  /\ reqs[s].pending = <<>>
  /\ store[s] = <<>>

BodyBad(s) ==
  \/ ~reqs[s].body.hasReadings
  \/ Invalid(s) # {}
  \/ IsBulk(s) /\ (N(s) < 1 \/ N(s) > 100)

C5_NoStoreOnRejection ==
  \A s \in Slots :
    IsIngest(s) =>
      /\ (\/ reqs[s].auth = NoToken
          \/ reqs[s].auth.key # JWT_SECRET
          \/ reqs[s].verifiedAt = -1
          \/ reqs[s].verifiedAt >= reqs[s].auth.exp) => NoStoreCall(s)
      /\ BodyBad(s) => NoStoreCall(s)
      /\ (BodyBad(s) /\ Done(s) /\ reqs[s].deviceId # Undefined) =>
           reqs[s].resp.status = 400

C5_Witness ==
  \E s \in Slots :
    /\ IsBulk(s) /\ Done(s) /\ N(s) = 2
    /\ reqs[s].deviceId = "d1"
    /\ Cardinality(Invalid(s)) = 1
    /\ Matching(s) = {1, 2}
    /\ reqs[s].resp.status = 400
    /\ NoStoreCall(s)

\* C6: Issue with a non-empty deviceId and deviceSecret = prefix + deviceId
\* answers 200 with a token for that deviceId, and a request that presents
\* an issued token before its expiry is authenticated as the token's device.
C6_TokenRoundTrip ==
  /\ \A s \in Slots :
       (/\ reqs[s].route = "/auth/token" /\ Done(s)
        /\ reqs[s].resp.status # 429
        /\ reqs[s].body.deviceId \in Devices
        /\ reqs[s].body.deviceSecret = DEVICE_SECRET_PREFIX \o reqs[s].body.deviceId) =>
         /\ reqs[s].resp.status = 200
         /\ reqs[s].resp.token \in issued
         /\ reqs[s].resp.token.deviceId = reqs[s].body.deviceId
         /\ reqs[s].resp.token.key = JWT_SECRET
         /\ reqs[s].resp.token.exp > reqs[s].resp.token.iat
  /\ \A s \in Slots :
       (/\ IsIngest(s)
        /\ reqs[s].auth \in issued
        /\ reqs[s].verifiedAt # -1
        /\ reqs[s].verifiedAt < reqs[s].auth.exp) =>
         /\ reqs[s].deviceId = reqs[s].auth.deviceId
         /\ reqs[s].deviceId \in Devices
         /\ reqs[s].resp.code # "INVALID_TOKEN"
  /\ \A tok \in issued : tok.exp = tok.iat + JWT_EXPIRES_IN /\ tok.iat <= now

C6_Witness ==
  \E s \in Slots :
    /\ reqs[s].route = "/ingest" /\ Done(s)
    /\ reqs[s].auth \in issued
    /\ reqs[s].deviceId = "d2"
    /\ reqs[s].resp.status = 201

\* C7: a token verified at or after its expiry is answered 403 INVALID_TOKEN,
\* the request is not authenticated and causes no store write; a request is
\* authenticated only by a token signed with the gateway's key and verified
\* before its expiry.
C7_TokenFreshness ==
  \A s \in Slots :
    IsIngest(s) =>
      /\ (reqs[s].verifiedAt # -1 /\ reqs[s].verifiedAt >= reqs[s].auth.exp) =>
           /\ Done(s)
           /\ reqs[s].resp.status = 403
           /\ reqs[s].resp.code = "INVALID_TOKEN"
           /\ reqs[s].deviceId = Undefined
           /\ NoStoreCall(s)
      /\ (reqs[s].deviceId # Undefined \/ ~NoStoreCall(s)) =>
           /\ reqs[s].verifiedAt # -1
           /\ reqs[s].verifiedAt < reqs[s].auth.exp
           /\ reqs[s].auth.key = "gateway-key"

C7_Witness ==
  \E s \in Slots :
    /\ reqs[s].route = "/ingest" /\ Done(s)
    /\ reqs[s].auth \in issued
    /\ reqs[s].verifiedAt = reqs[s].auth.exp
    /\ reqs[s].resp.code = "INVALID_TOKEN"

\* C8: a token is issued only for a non-empty deviceId and a deviceSecret
\* equal to prefix + deviceId; a missing field is answered 400
\* MISSING_CREDENTIALS, and every mismatch with the same 401 response,
\* which carries no token.
C8_CredentialCheck ==
  \A s \in Slots :
    (reqs[s].route = "/auth/token" /\ Done(s) /\ reqs[s].resp.status # 429) =>
      LET id == reqs[s].body.deviceId
          secret == reqs[s].body.deviceSecret
          missing == id \in {Undefined, ""} \/ secret \in {Undefined, ""}
      IN /\ reqs[s].resp.status = 200 =>
              ~missing /\ secret = DEVICE_SECRET_PREFIX \o id
         /\ missing =>
              /\ reqs[s].resp.status = 400
              /\ reqs[s].resp.code = "MISSING_CREDENTIALS"
         /\ (~missing /\ secret # DEVICE_SECRET_PREFIX \o id) =>
              reqs[s].resp = [NoResp EXCEPT !.status = 401,
                                            !.error = "Invalid device credentials",
                                            !.code = "INVALID_CREDENTIALS"]
         /\ reqs[s].resp.token # NoToken => reqs[s].resp.status = 200

C8_Witness ==
  \E s \in Slots :
    /\ reqs[s].route = "/auth/token" /\ Done(s)
    /\ reqs[s].body.deviceId = "d1"
    /\ reqs[s].body.deviceSecret = "p-"
    /\ reqs[s].resp.status = 401

\* C9: for each limiter and caller key, an admission check passes exactly
\* when fewer than max checks have passed in the same window, a window
\* being opened by the first check at or after the end of the one before;
\* so the check after max admissions is rejected, as is every later one of
\* that window, and the first check after the window has elapsed passes.
RECURSIVE WindowOf(_, _, _)
WindowOf(lg, i, windowMs) ==
  IF i = 1 THEN lg[1].t
  ELSE LET w == WindowOf(lg, i - 1, windowMs)
       IN IF lg[i].t >= w + windowMs THEN lg[i].t ELSE w

AdmittedBefore(lg, i, windowMs) ==
  Cardinality({j \in 1..(i - 1) :
                 lg[j].ok /\ WindowOf(lg, j, windowMs) = WindowOf(lg, i, windowMs)})

WindowRule(lg, windowMs, max) ==
  \A i \in 1..Len(lg) : lg[i].ok <=> AdmittedBefore(lg, i, windowMs) < max

C9_RateLimitWindow ==
  /\ \A ip \in IPs :
       /\ WindowRule(log["limiter"][ip], rateWindowMs, rateMaxReq)
       /\ WindowRule(log["ingestLimiter"][ip], ingestWindowMs, ingestMaxReq)
  /\ \A s \in Slots :
       reqs[s].resp.status = 429 =>
         \E l \in {"limiter", "ingestLimiter"} :
           /\ Len(log[l][reqs[s].ip]) > 0
           /\ \E i \in 1..Len(log[l][reqs[s].ip]) : ~log[l][reqs[s].ip][i].ok

C9_Witness ==
  \E ip \in IPs :
    LET lg == log["ingestLimiter"][ip]
    IN /\ Len(lg) = 4
       /\ lg[1].ok /\ lg[2].ok /\ ~lg[3].ok /\ lg[4].ok
       /\ lg[3].t < lg[1].t + ingestWindowMs
       /\ lg[4].t >= lg[1].t + ingestWindowMs

\* C10: a bulk request whose readings array is empty or longer than 100 is
\* rejected as a whole, with no store call and no per-item result; every
\* batch in the processing loop has between 1 and 100 readings.
C10_BatchSizeBound ==
  \A s \in Slots :
    reqs[s].route \in {"/ingest/bulk", "/api/telemetry/ingest/bulk"} =>
      /\ reqs[s].looped => N(s) >= 1 /\ N(s) <= 100
      /\ (N(s) < 1 \/ N(s) > 100) =>
           /\ NoStoreCall(s)
           /\ reqs[s].results = <<>>
           /\ reqs[s].errors = <<>>

\* C11: no response of /auth/token, /ingest or /ingest/bulk carries the
\* message text of a thrown exception or of a store error, neither as its
\* error string nor in an entry of its failure list.
ExceptionTexts ==
  {"unauthorized", "not found", "server error", "Invalid time value"}

C11_NoRawExceptionText ==
  \A s \in Slots :
    (reqs[s].route \in {"/auth/token", "/ingest", "/ingest/bulk"} /\ Done(s)) =>
      /\ reqs[s].resp.error \notin ExceptionTexts
      /\ \A k \in 1..Len(reqs[s].resp.errors) :
           reqs[s].resp.errors[k].error \notin ExceptionTexts

(***************************************************************************)
(* SpecNorm: what the gateway makes of a reading's fields.  Device d1      *)
(* sends single readings with every form of timestamp and location, with   *)
(* and without keys of its own (ingestedAt, isAnomalous), and batches of   *)
(* four such readings, two of them also with a location next to the        *)
(* readings.                                                               *)
(***************************************************************************)
NormTimestamps ==
  {TsAbsent, TsNum(2), TsNum(0), TsIso(1000), TsIsoOffset(1000), TsBad, TsHuge}

NormReadings ==
  {WithKeys(Reading("d1", "temperature", Num(21), Undefined, ts, l), keys) :
     ts \in NormTimestamps, l \in {Undefined, "", "lab"},
     keys \in {{}, {"ingestedAt", "isAnomalous"}}}

nA == Reading("d1", "flow", Num(5), Undefined, TsNum(2), "lab")
nB == Reading("d1", "flow", Num(5), Undefined, TsIsoOffset(1000), Undefined)
nC == Reading("d1", "flow", Num(5), Undefined, TsHuge, Undefined)
nD == WithKeys(Reading("d1", "flow", Num(5), Undefined, TsAbsent, "lab"),
               {"ingestedAt"})

NormBulkBodies ==
  {BulkBody(rs) : rs \in SeqsUpTo({nA, nB, nC, nD}, MaxLen)}
    \cup {[BulkBody(rs) EXCEPT !.location = "site"] : rs \in {<<nA>>, <<nB>>}}

ArriveNormToken ==
  \E body \in {b \in GoodTokenBodies : b.deviceId = "d1"} :
    Arrive(MaxReqs, FALSE, "/auth/token", "10.0.0.1", NoToken, body)

ArriveNormIngest ==
  \E auth \in issued, r \in NormReadings :
    Arrive(MaxReqs, FALSE, "/ingest", "10.0.0.1", auth, SingleBody(r))

ArriveNormBulk ==
  \E auth \in issued, body \in NormBulkBodies :
    Arrive(MaxReqs, FALSE, "/ingest/bulk", "10.0.0.1", auth, body)

NextNorm ==
  \/ Tick(MaxIngestTime)
  \/ ArriveNormToken
  \/ ArriveNormIngest
  \/ ArriveNormBulk
  \/ \E s \in Slots : Limiter(s)
  \/ \E s \in Slots : IngestLimiter(s)
  \/ \E s \in Slots : AuthenticateToken(s)
  \/ \E s \in Slots : AuthToken(s)
  \/ \E s \in Slots : Ingest(s)
  \/ \E s \in Slots : IngestResume(s)
  \/ \E s \in Slots : Bulk(s)
  \/ \E s \in Slots : BulkResume(s)
  \/ \E s \in Slots : Release(s)

SpecNorm == Init /\ [][NextNorm]_vars

(***************************************************************************)
(* A request has passed the device-id check when it entered that stage and *)
(* was not answered with the mismatch.                                     *)
(***************************************************************************)
PassedChecks(s) ==
  /\ \E k \in 1..Len(reqs[s].stages) : reqs[s].stages[k] = "deviceId"
  /\ reqs[s].resp.code # "DEVICE_ID_MISMATCH"

Calls(s) == Len(reqs[s].calls)

\* C12: every POST /ingest that passes authentication, validation and the
\* device-id check issues exactly one store write, none after a failure; a
\* batch of N readings issues at most one write per reading.
C12_ExactlyOneWrite ==
  \A s \in Slots :
    /\ (reqs[s].route = "/ingest" /\ PassedChecks(s)) => Calls(s) = 1
    /\ IsBulk(s) =>
         /\ Calls(s) <= N(s)
         /\ \A k \in 1..Calls(s) : \A m \in 1..Calls(s) :
              k < m => reqs[s].calls[k] < reqs[s].calls[m]

\* C13: on the single-record path a failed store write is answered 500 with
\* the outcome the store's error code selects: DB_AUTH_ERROR for 401,
\* DB_NOT_FOUND for 404, INGESTION_ERROR for every other code; 201 is
\* answered only after a write that succeeded.
C13_StoreFailureClassification ==
  \A s \in Slots :
    (reqs[s].route = "/ingest" /\ Done(s)) =>
      /\ reqs[s].resp.status = 201 =>
           /\ reqs[s].outs = <<[ok |-> TRUE, code |-> 0, message |-> ""]>>
           /\ Len(store[s]) = 1
      /\ \A k \in 1..Len(reqs[s].outs) :
           ~reqs[s].outs[k].ok =>
             /\ Len(reqs[s].outs) = 1
             /\ store[s] = <<>>
             /\ reqs[s].resp.status = 500
             /\ reqs[s].resp.results = <<>>
             /\ reqs[s].resp.code =
                  CASE reqs[s].outs[k].code = 401 -> "DB_AUTH_ERROR"
                    [] reqs[s].outs[k].code = 404 -> "DB_NOT_FOUND"
                    [] OTHER -> "INGESTION_ERROR"

C13_Witness ==
  \E s \in Slots :
    /\ reqs[s].route = "/ingest" /\ Done(s)
    /\ Len(reqs[s].outs) = 1
    /\ reqs[s].outs[1].code = 404
    /\ reqs[s].resp.code = "DB_NOT_FOUND"

(***************************************************************************)
(* SpecConc: requests of one address served concurrently, two at a time,   *)
(* their middleware steps in every interleaving.  A step of a limiter is   *)
(* one synchronous increment of its store and the comparison of the count  *)
(* that increment returned.                                                *)
(***************************************************************************)
ArriveConcHealth ==
  Arrive(MaxConcReqs, TRUE, "/health", "10.0.0.1", NoToken, NoBody)

ArriveConcIngest ==
  Arrive(MaxConcReqs, TRUE, "/ingest", "10.0.0.1", NoToken, SingleBody(rA))

NextConc ==
  \/ Tick(MaxTime)
  \/ ArriveConcHealth
  \/ ArriveConcIngest
  \/ \E s \in Slots : Limiter(s)
  \/ \E s \in Slots : IngestLimiter(s)
  \/ \E s \in Slots : AuthenticateToken(s)
  \/ \E s \in Slots : Health(s)
  \/ \E s \in Slots : Release(s)

SpecConc == Init /\ [][NextConc]_vars

\* C14: under every interleaving of concurrent admission checks of one
\* caller key, the window counter of a limiter equals the number of checks
\* made in the current window (no increment is lost), and no window admits
\* more than max requests.
InWindow(lg, w, windowMs) == {j \in 1..Len(lg) : WindowOf(lg, j, windowMs) = w}

CountsEveryCheck(l, ip, windowMs, max) ==
  LET lg == log[l][ip]
  IN /\ lg = <<>> => hits[l][ip].totalHits = 0
     /\ lg # <<>> =>
          /\ hits[l][ip].totalHits
               = Cardinality(InWindow(lg, WindowOf(lg, Len(lg), windowMs), windowMs))
          /\ \A i \in 1..Len(lg) :
               Cardinality({j \in InWindow(lg, WindowOf(lg, i, windowMs), windowMs) :
                              lg[j].ok}) <= max

C14_AtomicCounting ==
  \A ip \in IPs :
    /\ CountsEveryCheck("limiter", ip, rateWindowMs, rateMaxReq)
    /\ CountsEveryCheck("ingestLimiter", ip, ingestWindowMs, ingestMaxReq)

C14_Witness ==
  /\ reqs[1].ip = reqs[2].ip
  /\ reqs[1].route = "/ingest" /\ reqs[2].route = "/ingest"
  /\ reqs[1].pc = "auth"
  /\ reqs[2].pc = "done" /\ reqs[2].resp.status = 429
  /\ reqs[2].stages = <<"limiter", "ingestLimiter">>
  /\ hits["ingestLimiter"][reqs[1].ip].totalHits = ingestMaxReq + 1

(***************************************************************************)
(* SpecStage: the stages of the ingestion endpoints.  Device d1 sends      *)
(* single readings and batches, good and bad, with good and bad tokens,    *)
(* often enough to run into the ingestion limiter; two requests are        *)
(* served at a time, all within one second.                                *)
(***************************************************************************)
ArriveStageToken ==
  \E body \in {b \in GoodTokenBodies : b.deviceId = "d1"} :
    Arrive(MaxStageReqs, TRUE, "/auth/token", "10.0.0.1", NoToken, body)

ArriveStageIngest ==
  \E auth \in Auths, r \in {rA, rC, rD} :
    Arrive(MaxStageReqs, TRUE, "/ingest", "10.0.0.1", auth, SingleBody(r))

ArriveStageBulk ==
  \E auth \in Auths, rs \in {<<rA, rC>>, <<rA, rD>>} :
    Arrive(MaxStageReqs, TRUE, "/ingest/bulk", "10.0.0.1", auth, BulkBody(rs))

NextStage ==
  \/ ArriveStageToken
  \/ ArriveStageIngest
  \/ ArriveStageBulk
  \/ \E s \in Slots : Limiter(s)
  \/ \E s \in Slots : IngestLimiter(s)
  \/ \E s \in Slots : AuthenticateToken(s)
  \/ \E s \in Slots : AuthToken(s)
  \/ \E s \in Slots : Ingest(s)
  \/ \E s \in Slots : IngestResume(s)
  \/ \E s \in Slots : Bulk(s)
  \/ \E s \in Slots : BulkResume(s)
  \/ \E s \in Slots : Release(s)

SpecStage == Init /\ [][NextStage]_vars

(***************************************************************************)
(* The order of the stages as the claims give it: rate-limit admission     *)
(* (both limiters), token verification, schema validation, then per        *)
(* reading the device-id check and the store write.                        *)
(***************************************************************************)
StageRank(name) ==
  CASE name = "limiter" -> 1
    [] name = "ingestLimiter" -> 2
    [] name = "auth" -> 3
    [] name = "schema" -> 4
    [] name = "deviceId" -> 5
    [] name = "store" -> 6

InOrder(st) ==
  \A k \in 1..Len(st) :
    /\ k = 1 => st[k] = "limiter"
    /\ k > 1 =>
         \/ StageRank(st[k]) = StageRank(st[k - 1]) + 1
         \/ st[k] = "deviceId" /\ st[k - 1] \in {"deviceId", "store"}

LastStage(s) == reqs[s].stages[Len(reqs[s].stages)]

TokenBad(s) ==
  \/ reqs[s].auth = NoToken
  \/ reqs[s].auth.key # JWT_SECRET
  \/ reqs[s].verifiedAt >= reqs[s].auth.exp

\* C15: a request to /ingest or /ingest/bulk enters the stages in the order
\* rate-limit admission, token verification, schema validation, device-id
\* check, store write; the stage that rejects it is the last it enters.  A
\* rate-limited request is answered without token verification or store
\* access, and a request with a bad token and a bad body is answered with
\* the authentication error.
C15_StageOrder ==
  \A s \in Slots :
    IsIngest(s) =>
      /\ InOrder(reqs[s].stages)
      /\ IsBulk(s) \/ Len(reqs[s].stages) <= 6
      /\ reqs[s].resp.status = 429 =>
           /\ LastStage(s) \in {"limiter", "ingestLimiter"}
           /\ reqs[s].verifiedAt = -1
           /\ reqs[s].deviceId = Undefined
           /\ NoStoreCall(s)
      /\ reqs[s].resp.code \in {"MISSING_TOKEN", "INVALID_TOKEN"} =>
           LastStage(s) = "auth" /\ NoStoreCall(s)
      /\ reqs[s].resp.code = "VALIDATION_ERROR" =>
           LastStage(s) = "schema" /\ NoStoreCall(s)
      /\ reqs[s].resp.code = "DEVICE_ID_MISMATCH" =>
           LastStage(s) = "deviceId" /\ NoStoreCall(s)
      /\ (Done(s) /\ reqs[s].resp.status # 429 /\ TokenBad(s)) =>
           /\ reqs[s].resp.status \in {401, 403}
           /\ reqs[s].resp.code \in {"MISSING_TOKEN", "INVALID_TOKEN"}
      /\ (Done(s) /\ reqs[s].resp.status \in {201, 500}) =>
           \E k \in 1..Len(reqs[s].stages) : reqs[s].stages[k] = "deviceId"

C15_Witness ==
  \E s \in Slots, u \in Slots :
    /\ IsIngest(s) /\ Done(s)
    /\ reqs[s].auth \in issued
    /\ ~BodyBad(s)
    /\ reqs[s].resp.status = 429
    /\ reqs[s].stages \in {<<"limiter">>, <<"limiter", "ingestLimiter">>}
    /\ IsBulk(u) /\ Done(u)
    /\ reqs[u].auth.key # JWT_SECRET
    /\ BodyBad(u)
    /\ reqs[u].stages = <<"limiter", "ingestLimiter", "auth">>
    /\ reqs[u].resp.code = "INVALID_TOKEN"

\* C16: the general and the ingestion counter of a caller key are separate
\* state.  No step changes both; a step of a request at the general limiter
\* leaves every ingestion counter as it is and a step at the ingestion
\* limiter every general counter; a request to an endpoint that is no
\* ingestion endpoint never changes an ingestion counter; a step changes
\* the counter of the acting request's key only; and a limiter refuses a
\* request exactly when its own counter has passed its max, whatever the
\* other counter is.
C16_IndependentCounters ==
  [][/\ \/ hits'["limiter"] = hits["limiter"]
        \/ hits'["ingestLimiter"] = hits["ingestLimiter"]
     /\ \A s \in Slots :
          /\ (reqs[s].pc = "limiter" /\ reqs'[s] # reqs[s]) =>
               /\ hits'["ingestLimiter"] = hits["ingestLimiter"]
               /\ \A ip \in IPs \ {reqs[s].ip} :
                    hits'["limiter"][ip] = hits["limiter"][ip]
               /\ hits'["limiter"][reqs[s].ip] # hits["limiter"][reqs[s].ip]
               /\ reqs'[s].resp.status = 429
                    <=> hits'["limiter"][reqs[s].ip].totalHits > rateMaxReq
          /\ (reqs[s].pc = "ingestLimiter" /\ reqs'[s] # reqs[s]) =>
               /\ hits'["limiter"] = hits["limiter"]
               /\ \A ip \in IPs \ {reqs[s].ip} :
                    hits'["ingestLimiter"][ip] = hits["ingestLimiter"][ip]
               /\ hits'["ingestLimiter"][reqs[s].ip]
                    # hits["ingestLimiter"][reqs[s].ip]
               /\ reqs'[s].resp.status = 429
                    <=> hits'["ingestLimiter"][reqs[s].ip].totalHits > ingestMaxReq
          /\ (reqs[s].route \notin {"/ingest", "/ingest/bulk"}
              /\ reqs[s].pc # "idle" /\ reqs'[s] # reqs[s]) =>
               hits'["ingestLimiter"] = hits["ingestLimiter"]
  ]_vars

C16_Witness ==
  \E ip \in IPs :
    /\ hits["ingestLimiter"][ip].totalHits > ingestMaxReq
    /\ hits["limiter"][ip].totalHits = rateMaxReq
    /\ \E s \in Slots :
         /\ reqs[s].ip = ip /\ reqs[s].route = "/health" /\ Done(s)
         /\ reqs[s].resp.status = 200

(***************************************************************************)
(* The step in which request s hands a document to the store, the reading  *)
(* it is made from and the document.                                       *)
(***************************************************************************)
IssuesWrite(s) == Len(reqs'[s].calls) > Len(reqs[s].calls)
WrittenReading(s) == reqs[s].body.readings[reqs'[s].idx]
WrittenDocument(s) == reqs'[s].pending[1]

TimestampRejected(s) ==
  \A j \in 1..N(s) :
    (/\ \/ reqs[s].body.readings[j].timestamp.kind = "bad"
        \/ reqs[s].body.readings[j].timestamp = [kind |-> "num", v |-> 0]
     /\ Done(s)
     /\ reqs[s].deviceId # Undefined) =>
        /\ reqs[s].resp.status = 400
        /\ reqs[s].resp.code = "VALIDATION_ERROR"
        /\ NoStoreCall(s)

Supplied(x) == x # "undefined" /\ x # ""

C18_LocationFallback ==
  [][\A s \in Slots :
       IssuesWrite(s) =>
         /\ WrittenDocument(s).location =
              IF Supplied(WrittenReading(s).location)
              THEN WrittenReading(s).location
              ELSE IF Supplied(reqs[s].body.location)
              THEN reqs[s].body.location
              ELSE "unknown"
         /\ Supplied(WrittenDocument(s).location)
  ]_vars

\* C19: every record the gateway hands to the store has isAnomalous = false
\* and ingestedAt equal to the gateway's clock at the moment it is built,
\* whatever the caller sent; a reading that carries an ingestedAt or an
\* isAnomalous of its own never reaches the store.
C19_GatewayControlledFields ==
  [][\A s \in Slots :
       IsIngest(s) =>
         /\ IssuesWrite(s) =>
              /\ WrittenDocument(s).isAnomalous = FALSE
              /\ WrittenDocument(s).ingestedAt = [kind |-> "iso", v |-> now * 1000]
              /\ WrittenReading(s).unknown = {}
         /\ (\E j \in 1..N(s) : reqs[s].body.readings[j].unknown # {}) =>
              NoStoreCall(s)' /\ reqs'[s].resp.status \notin {201, 500}
         /\ \A k \in 1..Len(store'[s]) :
              /\ store'[s][k].isAnomalous = FALSE
              /\ store'[s][k].ingestedAt.kind = "iso"
              /\ store'[s][k].ingestedAt.v <= now * 1000
  ]_vars

C19_Witness ==
  \E s \in Slots :
    /\ reqs[s].route = "/ingest" /\ Done(s)
    /\ reqs[s].resp.status = 201
    /\ reqs[s].body.readings[1].timestamp = TsNum(2)
    /\ store[s][1].timestamp = TsIso(2000)
    /\ store[s][1].ingestedAt = TsIso(1000)
    /\ store[s][1].isAnomalous = FALSE

\* C20: in a bulk request that passed request-level validation every input
\* reading ends in exactly one of the two result sequences, so that
\* processed + failed = N; processed is the number of documents the store
\* wrote for this request; and the response carries the failure list
\* exactly when failed > 0.
C20_BatchAccounting ==
  \A s \in Slots :
    (IsBulk(s) /\ reqs[s].looped) =>
      /\ Indexes(reqs[s].results) \cap Indexes(reqs[s].errors) = {}
      /\ Cardinality(Indexes(reqs[s].results)) = Len(reqs[s].results)
      /\ Cardinality(Indexes(reqs[s].errors)) = Len(reqs[s].errors)
      /\ Len(store[s]) = Len(reqs[s].results)
      /\ Done(s) =>
           /\ Indexes(reqs[s].results) \cup Indexes(reqs[s].errors) = 1..N(s)
           /\ reqs[s].resp.status = 201
           /\ reqs[s].resp.processed + reqs[s].resp.failed = N(s)
           /\ reqs[s].resp.processed = Len(store[s])
           /\ reqs[s].resp.failed = Len(reqs[s].errors)
           /\ reqs[s].resp.hasErrors <=> reqs[s].resp.failed > 0
           /\ reqs[s].resp.hasErrors => reqs[s].resp.errors = reqs[s].errors

C20_Witness ==
  \E s \in Slots :
    /\ IsBulk(s) /\ Done(s) /\ N(s) = 2
    /\ reqs[s].resp.processed = 1
    /\ reqs[s].resp.failed = 1
    /\ reqs[s].resp.hasErrors
    /\ reqs[s].results[1].i = 1
    /\ reqs[s].errors[1].i = 2
    /\ reqs[s].outs = <<StoreOk, StoreErr(500, "server error")>>
    /\ Len(store[s]) = 1

(***************************************************************************)
(* SpecLive: the three POST endpoints with two requests in flight, every   *)
(* interleaving of their steps, all within one second.  Each step of a     *)
(* request is a callback the event loop runs once it is ready (weak        *)
(* fairness of the middleware and handler steps); weak fairness of the two *)
(* resume steps is the proviso that every store call returns or throws.    *)
(***************************************************************************)
MaxLiveReqs == 3

ArriveLiveToken ==
  \E body \in {b \in TokenBodies : b.deviceId = "d1"
                                    /\ b.deviceSecret \in {"p-", "p-d1"}} :
    Arrive(MaxLiveReqs, TRUE, "/auth/token", "10.0.0.1", NoToken, body)

ArriveLiveIngest ==
  \E auth \in Auths, r \in {rA, rC} :
    Arrive(MaxLiveReqs, TRUE, "/ingest", "10.0.0.1", auth, SingleBody(r))

ArriveLiveBulk ==
  \E auth \in Auths, rs \in {<<rA, rB>>, <<rA, rC>>} :
    Arrive(MaxLiveReqs, TRUE, "/ingest/bulk", "10.0.0.1", auth, BulkBody(rs))

NextLive ==
  \/ ArriveLiveToken
  \/ ArriveLiveIngest
  \/ ArriveLiveBulk
  \/ \E s \in Slots : Limiter(s)
  \/ \E s \in Slots : IngestLimiter(s)
  \/ \E s \in Slots : AuthenticateToken(s)
  \/ \E s \in Slots : AuthToken(s)
  \/ \E s \in Slots : Ingest(s)
  \/ \E s \in Slots : IngestResume(s)
  \/ \E s \in Slots : Bulk(s)
  \/ \E s \in Slots : BulkResume(s)
  \/ \E s \in Slots : Release(s)

Fairness ==
  \A s \in Slots :
    /\ WF_vars(Limiter(s))
    /\ WF_vars(IngestLimiter(s))
    /\ WF_vars(AuthenticateToken(s))
    /\ WF_vars(AuthToken(s))
    /\ WF_vars(Ingest(s))
    /\ WF_vars(IngestResume(s))
    /\ WF_vars(Bulk(s))
    /\ WF_vars(BulkResume(s))

SpecLive == Init /\ [][NextLive]_vars /\ Fairness

InFlight(s) == reqs[s].pc \notin {"idle", "done"}
Responded(s) == reqs[s].resp # NoResp

\* C21: provided every store call returns or throws, every request to
\* /auth/token, /ingest and /ingest/bulk receives exactly one response: a
\* request in flight is eventually answered, a batch after at most N store
\* calls; a request is answered exactly when its handling has ended, and
\* once it is answered no step sends another response or goes on with it.
C21_ExactlyOneResponse ==
  /\ [](\A s \in Slots :
          /\ Done(s) <=> Responded(s)
          /\ Len(reqs[s].outs) <= Calls(s)
          /\ Calls(s) <= N(s))
  /\ [][\A s \in Slots :
          Responded(s) => reqs'[s] \in {reqs[s], IdleReq}]_vars
  /\ \A s \in Slots : InFlight(s) ~> Done(s)

C21_Witness ==
  /\ IsBulk(1) /\ Done(1) /\ reqs[1].resp.status = 201
  /\ N(1) = 2 /\ Calls(1) = 2
  /\ \E k \in 1..2 : ~reqs[1].outs[k].ok
  /\ reqs[2].route = "/ingest" /\ reqs[2].pc = "await"

(***************************************************************************)
(* SpecIso: devices d1 and d2, each from its own address, with requests of *)
(* both in flight at once: single readings and batches that hold readings  *)
(* of both devices, their handler steps and store calls in every           *)
(* interleaving, all within one second.                                    *)
(***************************************************************************)
MaxIsoReqs == 4

AddressOf(deviceId) == IF deviceId = "d1" THEN "10.0.0.1" ELSE "10.0.0.2"

ArriveIsoToken ==
  \E body \in GoodTokenBodies :
    Arrive(MaxIsoReqs, TRUE, "/auth/token", AddressOf(body.deviceId), NoToken,
           body)

ArriveIsoIngest ==
  \E auth \in issued, r \in {rA, rC} :
    Arrive(MaxIsoReqs, TRUE, "/ingest", AddressOf(auth.deviceId), auth,
           SingleBody(r))

ArriveIsoBulk ==
  \E auth \in issued, rs \in {<<rA, rC>>, <<rC, rA>>, <<rA, rB>>} :
    Arrive(MaxIsoReqs, TRUE, "/ingest/bulk", AddressOf(auth.deviceId), auth,
           BulkBody(rs))

NextIso ==
  \/ ArriveIsoToken
  \/ ArriveIsoIngest
  \/ ArriveIsoBulk
  \/ \E s \in Slots : Limiter(s)
  \/ \E s \in Slots : IngestLimiter(s)
  \/ \E s \in Slots : AuthenticateToken(s)
  \/ \E s \in Slots : AuthToken(s)
  \/ \E s \in Slots : Ingest(s)
  \/ \E s \in Slots : IngestResume(s)
  \/ \E s \in Slots : Bulk(s)
  \/ \E s \in Slots : BulkResume(s)
  \/ \E s \in Slots : Release(s)

SpecIso == Init /\ [][NextIso]_vars

(***************************************************************************)
(* What a request's own data make of it: the readings of its own body, the *)
(* device of its own token, and what the store answered to its own writes. *)
(***************************************************************************)
OwnReading(s, i) == reqs[s].body.readings[i]
OwnWritesOk(s) == {k \in 1..Len(reqs[s].outs) : reqs[s].outs[k].ok}
OwnWritesFailed(s) == {k \in 1..Len(reqs[s].outs) : ~reqs[s].outs[k].ok}
OwnMismatches(s) == {j \in 1..N(s) : Mismatch(s, j)}

\* C22: with requests of the same or of different devices in flight and
\* their store calls interleaved, the device id a request's readings are
\* checked against is the one of its own token, every entry of its results
\* and errors is an entry for one of its own readings, and its response and
\* counts are those its own readings, its own token and the store's answers
\* to its own writes give.
C22_CrossRequestIsolation ==
  \A s \in Slots :
    IsIngest(s) =>
      /\ reqs[s].deviceId # Undefined => reqs[s].deviceId = reqs[s].auth.deviceId
      /\ \A k \in 1..Len(reqs[s].results) :
           /\ reqs[s].results[k].i \in 1..N(s)
           /\ reqs[s].results[k].sensorType
                = OwnReading(s, reqs[s].results[k].i).sensorType
           /\ ~Mismatch(s, reqs[s].results[k].i)
      /\ \A k \in 1..Len(reqs[s].errors) :
           /\ reqs[s].errors[k].i \in 1..N(s)
           /\ reqs[s].errors[k].reading.deviceId
                = OwnReading(s, reqs[s].errors[k].i).deviceId
           /\ reqs[s].errors[k].reading.sensorType
                = OwnReading(s, reqs[s].errors[k].i).sensorType
           /\ reqs[s].errors[k].reading.value
                = OwnReading(s, reqs[s].errors[k].i).value
      /\ (IsBulk(s) /\ Done(s) /\ reqs[s].resp.status = 201) =>
           /\ reqs[s].resp.results = reqs[s].results
           /\ reqs[s].resp.errors = reqs[s].errors
           /\ reqs[s].resp.processed = Cardinality(OwnWritesOk(s))
           /\ reqs[s].resp.failed
                = Cardinality(OwnMismatches(s)) + Cardinality(OwnWritesFailed(s))
           /\ reqs[s].resp.processed + reqs[s].resp.failed = N(s)
      /\ (~IsBulk(s) /\ Done(s) /\ reqs[s].resp.status \notin {429, 401}) =>
           /\ reqs[s].resp.code = "DEVICE_ID_MISMATCH" <=> Mismatch(s, 1)
           /\ reqs[s].resp.status = 201 <=> reqs[s].outs = <<StoreOk>>
           /\ reqs[s].resp.status = 201 =>
                reqs[s].resp.results[1].sensorType = OwnReading(s, 1).sensorType

C22_Witness ==
  /\ IsBulk(1) /\ IsBulk(2)
  /\ reqs[1].auth.deviceId = "d1" /\ reqs[2].auth.deviceId = "d2"
  /\ reqs[1].body = reqs[2].body
  /\ Done(1) /\ reqs[1].resp.status = 201
  /\ Indexes(reqs[1].resp.results) = {1} /\ Indexes(reqs[1].resp.errors) = {2}
  /\ reqs[2].pc = "await" /\ reqs[2].idx = 2
  /\ Indexes(reqs[2].errors) = {1}

====
